---- MODULE Spec2Model ----
(***************************************************************************)
(* The Couple's Quest Tracker (src/script.js): the state object `data`,     *)
(* its JSON persistence in localStorage (getData / saveData), the edit     *)
(* mode flag, and render(), which rebuilds the page and installs the       *)
(* event handlers.                                                         *)
(*                                                                         *)
(* Representation.  A JavaScript string is a sequence of one-character     *)
(* strings, so that trimming, JSON escaping and JSON parsing are computed  *)
(* character by character.  A number is held in hundredths (60 is 0.6):    *)
(* the slider's step is 0.05 and no arithmetic is done on data.overlay.    *)
(* Array positions are 1-based here; the indices the code captures         *)
(* (idx, taskIndex) are kept 0-based as in the source.                     *)
(***************************************************************************)
EXTENDS Integers, Sequences, FiniteSets, TLC

VARIABLES
  data,           \* let data (line 64): the AppState object
  defaultData,    \* the object bound to const defaultData (line 14)
  aliased,        \* data and defaultData are the same object
  editMode,       \* let editMode (line 65)
  storage,        \* localStorage entry 'coupleQuestData'
  quotaExceeded,  \* environment: setItem throws (storage full)
  dom,            \* the page: body style, overlay elements, #app
  pendingReads,   \* FileReader reads issued and not yet completed
  pc,             \* "loading" until DOMContentLoaded, then "ready"; "unsaved"
                  \* and "saved" where saveData is applied to a drawn state
  uncaught,       \* an exception escaped the top-level script
  last,           \* the event handled by the last step
  nEvents,        \* events so far, of the MaxEvents a run has
  calls           \* the calls of saveData and render the last step made, in order

vars == <<data, defaultData, aliased, editMode, storage, quotaExceeded, dom,
          pendingReads, pc, uncaught, last, nEvents, calls>>

(***************************************************************************)
(* Strings                                                                 *)
(***************************************************************************)
\* White space removed by String.prototype.trim (the part of it the inputs use).
WhiteSpace == {" ", "\t"}

RECURSIVE TrimStart(_)
TrimStart(s) ==
  IF s # <<>> /\ Head(s) \in WhiteSpace THEN TrimStart(Tail(s)) ELSE s

RECURSIVE TrimEnd(_)
TrimEnd(s) ==
  IF s # <<>> /\ s[Len(s)] \in WhiteSpace
    THEN TrimEnd(SubSeq(s, 1, Len(s) - 1))
    ELSE s

\* input.value taken as it is.
untrimmed(s) == s

\* input.value.trim() (line 289)
trim(s) == TrimEnd(TrimStart(s))

\* s has the characters lit at position i
Matches(s, i, lit) ==
  i >= 1 /\ i + Len(lit) - 1 <= Len(s) /\ SubSeq(s, i, i + Len(lit) - 1) = lit

DigitChars == <<"0", "1", "2", "3", "4", "5", "6", "7", "8", "9">>

IsDigit(c) == \E d \in 1..10 : DigitChars[d] = c

DigitValue(c) == (CHOOSE d \in 1..10 : DigitChars[d] = c) - 1

RECURSIVE Digits(_)
Digits(n) ==
  IF n < 10 THEN <<DigitChars[n + 1]>>
            ELSE Digits(n \div 10) \o <<DigitChars[(n % 10) + 1]>>

\* Number-to-string conversion of JavaScript (JSON.stringify of a number and
\* `${number}`): shortest decimal form, no trailing zeros.  h is in hundredths.
FormatNumber(h) ==
  LET whole == Digits(h \div 100)
      frac  == h % 100
  IN  IF frac = 0 THEN whole
      ELSE IF frac % 10 = 0 THEN whole \o <<".", DigitChars[(frac \div 10) + 1]>>
      ELSE whole \o <<".", DigitChars[(frac \div 10) + 1], DigitChars[(frac % 10) + 1]>>

\* Result of a failed scan.
Fail == [ok |-> FALSE, val |-> <<>>, next |-> 0]

RECURSIVE ScanDigits(_, _, _)
\* The run of digits of s from position i on, acc being the value so far.
ScanDigits(s, i, acc) ==
  IF i <= Len(s) /\ IsDigit(s[i])
    THEN ScanDigits(s, i + 1, 10 * acc + DigitValue(s[i]))
    ELSE [ok |-> TRUE, val |-> acc, next |-> i]

\* The fraction that may follow the digits `whole` of a number that starts at
\* position i: "." and one or two digits.  The value is in hundredths.
ScanFraction(s, i, whole) ==
  IF s[i] = "0" /\ whole.next > i + 1 THEN Fail
  ELSE IF ~Matches(s, whole.next, <<".">>)
    THEN [ok |-> TRUE, val |-> 100 * whole.val, next |-> whole.next]
  ELSE IF ~(whole.next + 1 <= Len(s) /\ IsDigit(s[whole.next + 1])) THEN Fail
  ELSE IF ~(whole.next + 2 <= Len(s) /\ IsDigit(s[whole.next + 2]))
    THEN [ok |-> TRUE,
          val |-> 100 * whole.val + 10 * DigitValue(s[whole.next + 1]),
          next |-> whole.next + 2]
  ELSE IF whole.next + 3 <= Len(s) /\ IsDigit(s[whole.next + 3]) THEN Fail
  ELSE [ok |-> TRUE,
        val |-> 100 * whole.val + 10 * DigitValue(s[whole.next + 1])
                  + DigitValue(s[whole.next + 2]),
        next |-> whole.next + 3]

\* A JSON number at position i of s: digits [ "." digit [digit] ], no leading
\* zeros.  (Numbers with a sign, an exponent or more than two decimals are
\* outside the model's numbers.)
ScanNumber(s, i) ==
  IF i <= Len(s) /\ IsDigit(s[i])
    THEN ScanFraction(s, i, ScanDigits(s, i, 0))
    ELSE Fail

\* parseFloat(e.target.value) (line 179) of a string the range input holds.
parseFloat(s) == ScanNumber(s, 1).val

(***************************************************************************)
(* JSON.stringify of the AppState                                          *)
(***************************************************************************)
\* What JSON.stringify writes for one character of a string.
EscapeChar(c) ==
  IF c = "\"" THEN <<"\\", "\"">>
  ELSE IF c = "\\" THEN <<"\\", "\\">>
  ELSE IF c = "\t" THEN <<"\\", "t">>
  ELSE <<c>>

RECURSIVE EscapeRange(_, _, _)
\* The characters lo..hi of s, escaped (the range is halved to keep the
\* evaluation shallow).
EscapeRange(s, lo, hi) ==
  IF lo > hi THEN <<>>
  ELSE IF lo = hi THEN EscapeChar(s[lo])
  ELSE EscapeRange(s, lo, (lo + hi) \div 2) \o EscapeRange(s, ((lo + hi) \div 2) + 1, hi)

\* Strings written between quotes as they are.
EscapeNothing(s) == s

\* A string none of whose characters is escaped is written as it is.
Escape(s) ==
  IF \A k \in 1..Len(s) : s[k] \notin {"\"", "\\", "\t"}
    THEN s
    ELSE EscapeRange(s, 1, Len(s))

Quote(s) == <<"\"">> \o Escape(s) \o <<"\"">>

KeyNames == <<"{", "\"", "n", "a", "m", "e", "s", "\"", ":">>
KeyTagline == <<",", "\"", "t", "a", "g", "l", "i", "n", "e", "\"", ":">>
KeyBackground == <<",", "\"", "b", "a", "c", "k", "g", "r", "o", "u", "n", "d", "\"", ":">>
KeyOverlay == <<",", "\"", "o", "v", "e", "r", "l", "a", "y", "\"", ":">>
KeySections == <<",", "\"", "s", "e", "c", "t", "i", "o", "n", "s", "\"", ":", "[">>
KeyTitle == <<"{", "\"", "t", "i", "t", "l", "e", "\"", ":">>
KeyTasks == <<",", "\"", "t", "a", "s", "k", "s", "\"", ":", "[">>
KeyText == <<"{", "\"", "t", "e", "x", "t", "\"", ":">>
KeyCompleted == <<",", "\"", "c", "o", "m", "p", "l", "e", "t", "e", "d", "\"", ":">>
LitTrue == <<"t", "r", "u", "e">>
LitFalse == <<"f", "a", "l", "s", "e">>
CloseArrayObject == <<"]", "}">>

StringifyTask(task) ==
  KeyText \o Quote(task.text) \o KeyCompleted
    \o (IF task.completed THEN LitTrue ELSE LitFalse) \o <<"}">>

RECURSIVE StringifyTaskRange(_, _, _)
\* The tasks lo..hi, separated by commas.
StringifyTaskRange(tasks, lo, hi) ==
  IF lo > hi THEN <<>>
  ELSE IF lo = hi THEN StringifyTask(tasks[lo])
  ELSE StringifyTaskRange(tasks, lo, (lo + hi) \div 2) \o <<",">>
         \o StringifyTaskRange(tasks, ((lo + hi) \div 2) + 1, hi)

StringifyTasks(tasks) == StringifyTaskRange(tasks, 1, Len(tasks))

StringifySection(sec) ==
  KeyTitle \o Quote(sec.title) \o KeyTasks \o StringifyTasks(sec.tasks)
    \o CloseArrayObject

RECURSIVE StringifySectionRange(_, _, _)
StringifySectionRange(secs, lo, hi) ==
  IF lo > hi THEN <<>>
  ELSE IF lo = hi THEN StringifySection(secs[lo])
  ELSE StringifySectionRange(secs, lo, (lo + hi) \div 2) \o <<",">>
         \o StringifySectionRange(secs, ((lo + hi) \div 2) + 1, hi)

StringifySections(secs) == StringifySectionRange(secs, 1, Len(secs))

\* JSON.stringify(data) (line 57; line 51 for defaultData): the keys in
\* insertion order, no white space.
JSONstringify(d) ==
  KeyNames \o Quote(d.names)
    \o KeyTagline \o Quote(d.tagline)
    \o KeyBackground \o Quote(d.background)
    \o KeyOverlay \o FormatNumber(d.overlay)
    \o KeySections \o StringifySections(d.sections)
    \o CloseArrayObject

(***************************************************************************)
(* JSON.parse of a stored document                                         *)
(*                                                                         *)
(* The parser reads the documents the model stores: an AppState as         *)
(* JSON.stringify writes it.  Every other string the model puts into       *)
(* storage is not JSON at all, and the parser rejects it as JSON.parse     *)
(* does (SyntaxError).                                                     *)
(***************************************************************************)
RECURSIVE BackslashesBefore(_, _, _)
\* The number of consecutive backslashes that end just before position k,
\* counted inside the string that starts at lo.
BackslashesBefore(s, lo, k) ==
  IF k > lo /\ s[k - 1] = "\\" THEN 1 + BackslashesBefore(s, lo, k - 1) ELSE 0

\* The character at k is the second character of an escape sequence.
Escaped(s, lo, k) == BackslashesBefore(s, lo, k) % 2 = 1

ClosingQuote(s, lo, k) == s[k] = "\"" /\ ~Escaped(s, lo, k)

\* The character at k may stand where it stands in a JSON string: an escape
\* is one of \" \\ \t (the escapes of the model's alphabet), and a control
\* character is never written raw.
ValidChar(s, lo, k) ==
  IF Escaped(s, lo, k) THEN s[k] \in {"\"", "\\", "t"} ELSE s[k] # "\t"

\* What the character at k adds to the parsed string.
Unescaped(s, lo, k) ==
  IF Escaped(s, lo, k) THEN <<IF s[k] = "t" THEN "\t" ELSE s[k]>>
  ELSE IF s[k] = "\\" THEN <<>>
  ELSE <<s[k]>>

RECURSIVE UnescapeRange(_, _, _, _)
\* The characters from..to of the string that starts at lo, unescaped.
UnescapeRange(s, lo, from, to) ==
  IF from > to THEN <<>>
  ELSE IF from = to THEN Unescaped(s, lo, from)
  ELSE UnescapeRange(s, lo, from, (from + to) \div 2)
         \o UnescapeRange(s, lo, ((from + to) \div 2) + 1, to)

\* The string that starts after position i of s has no escape sequence and
\* no control character, and its closing quote is at position j.
PlainUpTo(s, i, j) ==
  s[j] = "\"" /\ \A m \in (i + 1)..(j - 1) : s[m] \notin {"\"", "\\", "\t"}

\* The string whose closing quote is at position end, its opening quote
\* being at position i.
EscapedString(s, i, end) ==
  IF \A k \in (i + 1)..(end - 1) : ValidChar(s, i + 1, k)
    THEN [ok |-> TRUE, val |-> UnescapeRange(s, i + 1, i + 1, end - 1),
          next |-> end + 1]
    ELSE Fail

PlainString(s, i, end) ==
  [ok |-> TRUE, val |-> SubSeq(s, i + 1, end - 1), next |-> end + 1]

\* A JSON string whose opening quote is at position i of s.
ScanString(s, i) ==
  IF ~(i <= Len(s) /\ s[i] = "\"") THEN Fail
  ELSE IF \E j \in (i + 1)..Len(s) : PlainUpTo(s, i, j)
    THEN PlainString(s, i, CHOOSE j \in (i + 1)..Len(s) : PlainUpTo(s, i, j))
  ELSE IF \E j \in (i + 1)..Len(s) : ClosingQuote(s, i + 1, j)
    THEN EscapedString(s, i, CHOOSE j \in (i + 1)..Len(s) :
                                /\ ClosingQuote(s, i + 1, j)
                                /\ \A m \in (i + 1)..(j - 1) : ~ClosingQuote(s, i + 1, m))
  ELSE Fail

\* The value that follows the characters `key` at position i of s.
StringAfter(s, i, key) ==
  IF Matches(s, i, key) THEN ScanString(s, i + Len(key)) ELSE Fail

ScanBoolean(s, i) ==
  IF Matches(s, i, LitTrue) THEN [ok |-> TRUE, val |-> TRUE, next |-> i + 4]
  ELSE IF Matches(s, i, LitFalse) THEN [ok |-> TRUE, val |-> FALSE, next |-> i + 5]
  ELSE Fail

BooleanAfter(s, i, key) ==
  IF Matches(s, i, key) THEN ScanBoolean(s, i + Len(key)) ELSE Fail

NumberAfter(s, i, key) ==
  IF Matches(s, i, key) THEN ScanNumber(s, i + Len(key)) ELSE Fail

\* {"text":text,"completed":done}
TaskObject(s, text, done) ==
  IF done.ok /\ Matches(s, done.next, <<"}">>)
    THEN [ok |-> TRUE, val |-> [text |-> text.val, completed |-> done.val],
          next |-> done.next + 1]
    ELSE Fail

TaskWithText(s, text) ==
  IF text.ok THEN TaskObject(s, text, BooleanAfter(s, text.next, KeyCompleted))
             ELSE Fail

ScanTask(s, i) == TaskWithText(s, StringAfter(s, i, KeyText))

RECURSIVE ScanTasksFrom(_, _, _)
\* The array continues after its element `task`; acc holds the elements
\* before it.
TasksAfter(s, acc, task) ==
  IF ~task.ok THEN Fail
  ELSE IF Matches(s, task.next, <<"]">>)
    THEN [ok |-> TRUE, val |-> Append(acc, task.val), next |-> task.next + 1]
  ELSE IF Matches(s, task.next, <<",">>)
    THEN ScanTasksFrom(s, task.next + 1, Append(acc, task.val))
  ELSE Fail

\* The elements of a tasks array from the one at position i on, up to "]".
ScanTasksFrom(s, i, acc) == TasksAfter(s, acc, ScanTask(s, i))

\* The tasks array that follows `key` at position i.
TasksAfterKey(s, i, key) ==
  IF ~Matches(s, i, key) THEN Fail
  ELSE IF Matches(s, i + Len(key), <<"]">>)
    THEN [ok |-> TRUE, val |-> <<>>, next |-> i + Len(key) + 1]
  ELSE ScanTasksFrom(s, i + Len(key), <<>>)

\* {"title":title,"tasks":tasks}
SectionObject(s, title, tasks) ==
  IF tasks.ok /\ Matches(s, tasks.next, <<"}">>)
    THEN [ok |-> TRUE, val |-> [title |-> title.val, tasks |-> tasks.val],
          next |-> tasks.next + 1]
    ELSE Fail

SectionWithTitle(s, title) ==
  IF title.ok THEN SectionObject(s, title, TasksAfterKey(s, title.next, KeyTasks))
              ELSE Fail

ScanSection(s, i) == SectionWithTitle(s, StringAfter(s, i, KeyTitle))

RECURSIVE ScanSectionsFrom(_, _, _)
SectionsAfter(s, acc, sec) ==
  IF ~sec.ok THEN Fail
  ELSE IF Matches(s, sec.next, <<"]">>)
    THEN [ok |-> TRUE, val |-> Append(acc, sec.val), next |-> sec.next + 1]
  ELSE IF Matches(s, sec.next, <<",">>)
    THEN ScanSectionsFrom(s, sec.next + 1, Append(acc, sec.val))
  ELSE Fail

\* The elements of the sections array from the one at position i on.
ScanSectionsFrom(s, i, acc) == SectionsAfter(s, acc, ScanSection(s, i))

SectionsAfterKey(s, i, key) ==
  IF ~Matches(s, i, key) THEN Fail
  ELSE IF Matches(s, i + Len(key), <<"]">>)
    THEN [ok |-> TRUE, val |-> <<>>, next |-> i + Len(key) + 1]
  ELSE ScanSectionsFrom(s, i + Len(key), <<>>)

\* The document is complete: "}" after the sections, and nothing after it.
WithSections(s, names, tagline, background, overlay, sections) ==
  IF sections.ok /\ Matches(s, sections.next, <<"}">>) /\ sections.next = Len(s)
    THEN [ok |-> TRUE,
          val |-> [names |-> names.val, tagline |-> tagline.val,
                   background |-> background.val, overlay |-> overlay.val,
                   sections |-> sections.val],
          next |-> Len(s) + 1]
    ELSE Fail

WithOverlay(s, names, tagline, background, overlay) ==
  IF overlay.ok
    THEN WithSections(s, names, tagline, background, overlay,
                      SectionsAfterKey(s, overlay.next, KeySections))
    ELSE Fail

WithBackground(s, names, tagline, background) ==
  IF background.ok
    THEN WithOverlay(s, names, tagline, background,
                     NumberAfter(s, background.next, KeyOverlay))
    ELSE Fail

WithTagline(s, names, tagline) ==
  IF tagline.ok
    THEN WithBackground(s, names, tagline,
                        StringAfter(s, tagline.next, KeyBackground))
    ELSE Fail

WithNames(s, names) ==
  IF names.ok THEN WithTagline(s, names, StringAfter(s, names.next, KeyTagline))
              ELSE Fail

\* JSON.parse(saved) (line 46; line 51 for the default): ok is FALSE where
\* JSON.parse throws a SyntaxError.
JSONparse(s) == WithNames(s, StringAfter(s, 1, KeyNames))

(***************************************************************************)
(* Default data (lines 14-39)                                              *)
(***************************************************************************)
DefaultLiteral ==
  [names |-> <<"Y", "o", "u", " ", "&", " ", "M", "e">>,
   tagline |-> <<"A", "d", "v", "e", "n", "t", "u", "r", "e", "s", ",", " ", "d", "r", "e", "a", "m", "s", " ", "a", "n", "d", " ", "m", "e", "m", "o", "r", "i", "e", "s", " ", "t", "o", "g", "e", "t", "h", "e", "r">>,
   background |-> <<"i", "m", "a", "g", "e", "s", "/", "c", "o", "s", "m", "o", "s", ".", "j", "p", "g">>,
   overlay |-> 60,
   sections |-> <<
     [title |-> <<"T", "r", "a", "v", "e", "l", " ", "A", "d", "v", "e", "n", "t", "u", "r", "e", "s">>,
      tasks |-> <<
        [text |-> <<"V", "i", "s", "i", "t", " ", "P", "a", "r", "i", "s", ",", " ", "F", "r", "a", "n", "c", "e">>,
         completed |-> FALSE],
        [text |-> <<"R", "o", "a", "d", " ", "t", "r", "i", "p", " ", "a", "c", "r", "o", "s", "s", " ", "I", "c", "e", "l", "a", "n", "d">>,
         completed |-> FALSE],
        [text |-> <<"S", "e", "e", " ", "t", "h", "e", " ", "N", "o", "r", "t", "h", "e", "r", "n", " ", "L", "i", "g", "h", "t", "s", " ", "t", "o", "g", "e", "t", "h", "e", "r">>,
         completed |-> FALSE],
        [text |-> <<"T", "o", "k", "y", "o", " ", "c", "h", "e", "r", "r", "y", " ", "b", "l", "o", "s", "s", "o", "m", "s">>,
         completed |-> FALSE]
      >>],
     [title |-> <<"P", "e", "r", "s", "o", "n", "a", "l", " ", "G", "o", "a", "l", "s">>,
      tasks |-> <<
        [text |-> <<"L", "e", "a", "r", "n", " ", "S", "p", "a", "n", "i", "s", "h", " ", "t", "o", "g", "e", "t", "h", "e", "r">>,
         completed |-> FALSE],
        [text |-> <<"C", "o", "o", "k", " ", "5", "0", " ", "n", "e", "w", " ", "r", "e", "c", "i", "p", "e", "s">>,
         completed |-> FALSE],
        [text |-> <<"R", "u", "n", " ", "a", " ", "5", "K", " ", "t", "o", "g", "e", "t", "h", "e", "r">>,
         completed |-> FALSE],
        [text |-> <<"R", "e", "a", "d", " ", "1", "2", " ", "b", "o", "o", "k", "s", " ", "t", "o", "g", "e", "t", "h", "e", "r">>,
         completed |-> FALSE]
      >>]
   >>]

(***************************************************************************)
(* Bounds and inputs                                                       *)
(***************************************************************************)
\* Events of one run of the model: user input events, and the storage
\* filling up.
MaxEvents == 2

\* Values typed into the names, tagline and category title fields.
RenameInputs == {<<>>, <<" ", "\t">>, <<"\\", "J", "\"">>}

\* Values typed into an add-quest field.
AddInputs == {<<>>, <<" ", "\t">>, <<"\t", "S", "\"", " ", "\\", " ">>}

\* The range input (lines 172-175): min 0, step 0.05, max 0.9, in hundredths.
RangeMin == 0
RangeStep == 5

\* The slider without a max attribute: the default of a range input is 100.
RangeMaxDefault == 100 * 100

RangeMax == 90

RangeDomain == {v \in RangeMin..RangeMax : (v - RangeMin) % RangeStep = 0}

\* Slider positions the user drags to.
OverlayInputs == {RangeMin, RangeMin + RangeStep, RangeMax}

\* Image files the user picks; 0 stands for a cancelled file dialog.
Files == {1, 2}
NoFile == 0

\* event.target.result (line 156): the data URL readAsDataURL produces.
DataURL(f) == <<"d", "a", "t", "a", ":", "i", "m", "a", "g", "e", "/", "p", "n", "g", ";", "b", "a", "s", "e", "6", "4", ",">> \o <<DigitChars[f + 1]>>

(***************************************************************************)
(* localStorage                                                            *)
(***************************************************************************)
\* getItem returns null for a key that was never set.
Absent == [present |-> FALSE, value |-> <<>>]

Stored(s) == [present |-> TRUE, value |-> s]

\* Stored strings that are not JSON.
CorruptBlobs ==
  { <<"{">>,
    <<"u", "n", "d", "e", "f", "i", "n", "e", "d">>,
    SubSeq(JSONstringify(DefaultLiteral), 1, Len(JSONstringify(DefaultLiteral)) - 1),
    <<"{", "\"", "n", "a", "m", "e", "s", "\"", ":", "\"", "a", "\"", "b", "\"", ",", "\"", "t", "a", "g", "l", "i", "n", "e", "\"", ":", "\"", "\"", ",", "\"", "b", "a", "c", "k", "g", "r", "o", "u", "n", "d", "\"", ":", "\"", "\"", ",", "\"", "o", "v", "e", "r", "l", "a", "y", "\"", ":", "0", ".", "6", ",", "\"", "s", "e", "c", "t", "i", "o", "n", "s", "\"", ":", "[", "]", "}">> }

\* What the key can hold when the page is first opened: nothing, or a string
\* that is not a document.
InitialStorage ==
  {Absent, Stored(<<>>)} \cup {Stored(b) : b \in CorruptBlobs}

\* A well-formed document that this program did not write: nothing bounds
\* its overlay.
ForeignState ==
  [DefaultLiteral EXCEPT !.overlay = 150, !.sections[1].tasks[2].completed = TRUE]

\* A state this program wrote on an earlier visit.
ReturningState ==
  [DefaultLiteral EXCEPT !.names = <<>>, !.sections[2].tasks[1].completed = TRUE]

\* The key can also hold a document written by something else.
ForeignStorage == {Absent, Stored(JSONstringify(ForeignState))}

(***************************************************************************)
(* PersistentStore (lines 41-61)                                           *)
(***************************************************************************)
\* What a call of getData hands back: threw, an exception leaves the call;
\* aliased, the object returned is defaultData itself.
Returned(value) == [threw |-> FALSE, value |-> value, aliased |-> FALSE]

\* return defaultData: the object itself, not a copy.
SameObject(def) == [threw |-> FALSE, value |-> def, aliased |-> TRUE]

\* return JSON.parse(JSON.stringify(defaultData)) (line 51): a fresh object
\* with the contents of defaultData.
CopyOfDefault(def) ==
  [threw |-> FALSE, value |-> JSONparse(JSONstringify(def)).val, aliased |-> FALSE]

\* JSON.parse outside the try block: its exception leaves getData.
ParsedOrThrow(parsed, def) ==
  IF parsed.ok THEN Returned(parsed.val) ELSE [threw |-> TRUE, value |-> def, aliased |-> FALSE]

\* Lines 46-51 once JSON.parse has run: its value is returned; its exception
\* is caught and logged, and the copy of the default is returned.
ParsedOrDefault(parsed, def) ==
  IF parsed.ok THEN Returned(parsed.val) ELSE CopyOfDefault(def)

\* getData (lines 42-52), def being the contents of defaultData.
getData(saved, def) ==
  IF saved.present /\ saved.value # <<>>
    THEN ParsedOrDefault(JSONparse(saved.value), def)
    ELSE CopyOfDefault(def)

\* A handler that does not call saveData.
skipSave(d) == storage

\* A catch block that removes the entry when the write fails.
saveOrRemove(d) ==
  IF quotaExceeded THEN Absent ELSE Stored(JSONstringify(d))

\* saveData (lines 55-61): the entry after saving d; a throwing setItem is
\* caught and leaves the entry as it was.
saveData(d) ==
  IF quotaExceeded THEN storage ELSE Stored(JSONstringify(d))

(***************************************************************************)
(* ViewRenderer (lines 68-302)                                             *)
(***************************************************************************)
\* `url(${data.background})` (line 73)
Url(b) == <<"u", "r", "l", "(">> \o b \o <<")">>

\* `rgba(0, 0, 0, ${data.overlay})` (lines 83, 180)
Rgba(h) == <<"r", "g", "b", "a", "(", "0", ",", " ", "0", ",", " ", "0", ",", " ">> \o FormatNumber(h) \o <<")">>

\* The value a range input takes when set to h (line 176): the browser clamps
\* it to [min, max] and snaps it to the step.
RangeValue(h) ==
  LET c == IF h < RangeMin THEN RangeMin ELSE IF h > RangeMax THEN RangeMax ELSE h
  IN  FormatNumber(c - ((c - RangeMin) % RangeStep))

\* The page before the first render: no background style, no overlay, an
\* empty #app.
EmptyPage == [background |-> <<>>, overlays |-> <<>>, app |-> <<>>]

\* A row built without the test of editMode (line 264): the delete control
\* is always there.
QuestItemDeletable(task, taskIndex, mode) ==
  [text      |-> task.text,
   checked   |-> task.completed,
   completed |-> task.completed,
   delBtn    |-> <<taskIndex>>]

\* One row of a quest list (lines 243-275); taskIndex is the forEach index the
\* delete handler captures.
QuestItem(task, taskIndex, mode) ==
  [text      |-> task.text,
   checked   |-> task.completed,
   completed |-> task.completed,
   delBtn    |-> IF mode THEN <<taskIndex>> ELSE <<>>]

\* createCategorySection(idx) (lines 211-302)
createCategorySection(d, mode, idx) ==
  LET sectionData == d.sections[idx + 1]
  IN  [idx      |-> idx,
       title    |-> [tag |-> IF mode THEN "input" ELSE "h2", value |-> sectionData.title],
       items    |-> [k \in 1..Len(sectionData.tasks) |->
                       QuestItem(sectionData.tasks[k], k - 1, mode)],
       addInput |-> IF mode THEN << <<>> >> ELSE <<>>]

\* render without lines 79-80: the overlay already in the page stays.
AppendOverlay(d, before) == <<Rgba(d.overlay)>> \o before

\* The overlay elements after lines 79-84: the first existing one is removed,
\* the new one becomes the first child of body.
RenderOverlays(d, before) ==
  <<Rgba(d.overlay)>> \o (IF before = <<>> THEN <<>> ELSE Tail(before))

\* render() (lines 68-201): the page after rendering d in mode `mode`.
render(d, mode, page) ==
  [background |-> Url(d.background),
   overlays   |-> RenderOverlays(d, page.overlays),
   app        |-> <<
     [toggleBtn  |-> IF mode THEN "Done" ELSE "Edit",
      names      |-> [tag |-> IF mode THEN "input" ELSE "h1", value |-> d.names],
      tagline    |-> [tag |-> IF mode THEN "input" ELSE "p", value |-> d.tagline],
      fileInput  |-> mode,
      rangeInput |-> IF mode THEN <<RangeValue(d.overlay)>> ELSE <<>>,
      categories |-> <<createCategorySection(d, mode, 0),
                       createCategorySection(d, mode, 1)>>] >>]

(***************************************************************************)
(* Steps                                                                   *)
(***************************************************************************)
Event(op, cat, row, text, num) ==
  [op |-> op, cat |-> cat, row |-> row, text |-> text, num |-> num]

\* What a step calls, of saveData and render, in the order of the calls.
NoCall == <<>>

\* saveData() alone (lines 114, 131, 181, 230)
SaveOnly == <<"saveData">>

\* render() alone (lines 92, 306)
RenderOnly == <<"render">>

\* render() before saveData()
RenderThenSave == <<"render", "saveData">>

\* saveData(); render(); (lines 157-158, 254-255, 270-271, 293-294)
SaveThenRender == <<"saveData", "render">>

\* An assignment through `data`: it reaches defaultData when both name the
\* same object.
Assign(d) ==
  /\ data' = d
  /\ defaultData' = IF aliased THEN d ELSE defaultData
  /\ UNCHANGED aliased

\* A handler can run: the page is rendered and the event budget is not spent.
CanHandle == pc = "ready" /\ dom.app # <<>> /\ nEvents < MaxEvents

App == dom.app[1]

\* e.target.value.trim()
ValueTrimmed(v) == trim(v)

\* e.target.value || '' (lines 113, 130, 229)
ValueOrEmpty(v) == IF v = <<>> THEN <<>> ELSE v

\* The script has run (lines 14, 64, 65), getData having handed back `got`.
Loaded(got) ==
  /\ defaultData = DefaultLiteral
  /\ data = (IF got.threw THEN DefaultLiteral ELSE got.value)
  /\ aliased = got.aliased
  /\ uncaught = got.threw
  /\ editMode = FALSE
  /\ dom = EmptyPage
  /\ pendingReads = <<>>
  /\ pc = "loading"

\* The page is opened for the first time on a key that holds `saved`.
FirstLoad(saved) ==
  /\ storage = saved
  /\ Loaded(getData(saved, DefaultLiteral))
  /\ last = Event("load", 0, 0, <<>>, 0)
  /\ calls = NoCall
  /\ nEvents = 0

Init == quotaExceeded = FALSE /\ \E saved \in InitialStorage : FirstLoad(saved)

\* A first visit, or a visit that finds the document an earlier visit wrote,
\* with a storage that may be full from the start.
InitQuota ==
  /\ quotaExceeded \in BOOLEAN
  /\ \E saved \in {Absent, Stored(JSONstringify(ReturningState))} : FirstLoad(saved)

InitForeign == quotaExceeded = FALSE /\ \E saved \in ForeignStorage : FirstLoad(saved)

Reloaded(got) ==
  /\ defaultData' = DefaultLiteral
  /\ data' = (IF got.threw THEN DefaultLiteral ELSE got.value)
  /\ aliased' = got.aliased
  /\ uncaught' = got.threw
  /\ editMode' = FALSE
  /\ dom' = EmptyPage
  /\ pendingReads' = <<>>
  /\ pc' = "loading"

\* The page is closed and opened again: the script runs from the top.
Reload ==
  /\ Reloaded(getData(storage, DefaultLiteral))
  /\ last' = Event("load", 0, 0, <<>>, 0)
  /\ calls' = NoCall
  /\ UNCHANGED <<storage, quotaExceeded, nEvents>>

\* DOMContentLoaded listener (lines 305-307); it is never registered when the
\* script has thrown.
DOMContentLoaded ==
  /\ pc = "loading" /\ ~uncaught
  /\ dom' = render(data, editMode, dom)
  /\ pc' = "ready"
  /\ last' = Event("DOMContentLoaded", 0, 0, <<>>, 0)
  /\ calls' = RenderOnly
  /\ UNCHANGED <<data, defaultData, aliased, editMode, storage, quotaExceeded,
                 pendingReads, uncaught, nEvents>>

\* The handler without line 92: the mode flips and the page stays.
ToggleWithoutRender ==
  /\ pc = "ready" /\ dom.app # <<>>
  /\ editMode' = ~editMode
  /\ last' = Event("toggleMode", 0, 0, <<>>, 0)
  /\ calls' = NoCall
  /\ UNCHANGED <<data, defaultData, aliased, storage, quotaExceeded, dom,
                 pendingReads, pc, uncaught, nEvents>>

\* toggleBtn.onclick (lines 90-93)
ToggleClick ==
  /\ pc = "ready" /\ dom.app # <<>>
  /\ editMode' = ~editMode
  /\ dom' = render(data, ~editMode, dom)
  /\ last' = Event("toggleMode", 0, 0, <<>>, 0)
  /\ calls' = RenderOnly
  /\ UNCHANGED <<data, defaultData, aliased, storage, quotaExceeded,
                 pendingReads, pc, uncaught, nEvents>>

\* namesInput.onchange (lines 112-115): the user commits v in the names field.
NamesChange(v) ==
  /\ CanHandle /\ App.names.tag = "input" /\ v # App.names.value
  /\ Assign([data EXCEPT !.names = ValueOrEmpty(v)])
  /\ storage' = saveData(data')
  /\ dom' = [dom EXCEPT !.app[1].names.value = v]
  /\ last' = Event("names", 0, 0, v, 0)
  /\ calls' = SaveOnly
  /\ nEvents' = nEvents + 1
  /\ UNCHANGED <<editMode, quotaExceeded, pendingReads, pc, uncaught>>

\* taglineInput.onchange (lines 129-132)
TaglineChange(v) ==
  /\ CanHandle /\ App.tagline.tag = "input" /\ v # App.tagline.value
  /\ Assign([data EXCEPT !.tagline = ValueOrEmpty(v)])
  /\ storage' = saveData(data')
  /\ dom' = [dom EXCEPT !.app[1].tagline.value = v]
  /\ last' = Event("tagline", 0, 0, v, 0)
  /\ calls' = SaveOnly
  /\ nEvents' = nEvents + 1
  /\ UNCHANGED <<editMode, quotaExceeded, pendingReads, pc, uncaught>>

\* titleInput.onchange (lines 228-231) of the section at position c
TitleChange(c, v) ==
  /\ CanHandle /\ c \in 1..Len(App.categories)
  /\ App.categories[c].title.tag = "input" /\ v # App.categories[c].title.value
  /\ Assign([data EXCEPT !.sections[App.categories[c].idx + 1].title = ValueOrEmpty(v)])
  /\ storage' = saveData(data')
  /\ dom' = [dom EXCEPT !.app[1].categories[c].title.value = v]
  /\ last' = Event("title", c, 0, v, 0)
  /\ calls' = SaveOnly
  /\ nEvents' = nEvents + 1
  /\ UNCHANGED <<editMode, quotaExceeded, pendingReads, pc, uncaught>>

\* The handler without line 180.
RestyleNothing(page, h) == page

\* The page after line 180: the overlay element the handler's closure holds,
\* the one created by the render that created the slider, is restyled.
RestyleOverlay(page, h) ==
  [page EXCEPT !.overlays = <<Rgba(h)>> \o Tail(page.overlays)]

\* rangeInput.oninput (lines 178-182): the user drags the slider to v.
RangeInput(v) ==
  /\ CanHandle /\ App.rangeInput # <<>> /\ FormatNumber(v) # App.rangeInput[1]
  /\ Assign([data EXCEPT !.overlay = parseFloat(FormatNumber(v))])
  /\ storage' = saveData(data')
  /\ dom' = RestyleOverlay([dom EXCEPT !.app[1].rangeInput = <<FormatNumber(v)>>],
                           data'.overlay)
  /\ last' = Event("overlay", 0, 0, FormatNumber(v), v)
  /\ calls' = SaveOnly
  /\ nEvents' = nEvents + 1
  /\ UNCHANGED <<editMode, quotaExceeded, pendingReads, pc, uncaught>>

\* fileInput.onchange (lines 151-162): the user picks file f, or none.
FileChange(f) ==
  /\ CanHandle /\ App.fileInput
  /\ pendingReads' = IF f # NoFile THEN Append(pendingReads, f) ELSE pendingReads
  /\ last' = Event("file", 0, 0, <<>>, f)
  /\ calls' = NoCall
  /\ nEvents' = nEvents + 1
  /\ UNCHANGED <<data, defaultData, aliased, editMode, storage, quotaExceeded,
                 dom, pc, uncaught>>

\* One reader shared by all reads: a completion delivers the result of the
\* read issued first.
ReaderOnloadShared(k) ==
  /\ pc = "ready" /\ k \in 1..Len(pendingReads)
  /\ Assign([data EXCEPT !.background = DataURL(pendingReads[1])])
  /\ storage' = saveData(data')
  /\ dom' = render(data', editMode, dom)
  /\ pendingReads' = SubSeq(pendingReads, 1, k - 1)
                       \o SubSeq(pendingReads, k + 1, Len(pendingReads))
  /\ last' = Event("onload", 0, 0, DataURL(pendingReads[k]), pendingReads[k])
  /\ calls' = SaveThenRender
  /\ UNCHANGED <<editMode, quotaExceeded, pc, uncaught, nEvents>>

\* A completion that writes the result into the state as it was when the
\* script started.
ReaderOnloadStale(k) ==
  /\ pc = "ready" /\ k \in 1..Len(pendingReads)
  /\ Assign([DefaultLiteral EXCEPT !.background = DataURL(pendingReads[k])])
  /\ storage' = saveData(data')
  /\ dom' = render(data', editMode, dom)
  /\ pendingReads' = SubSeq(pendingReads, 1, k - 1)
                       \o SubSeq(pendingReads, k + 1, Len(pendingReads))
  /\ last' = Event("onload", 0, 0, DataURL(pendingReads[k]), pendingReads[k])
  /\ calls' = SaveThenRender
  /\ UNCHANGED <<editMode, quotaExceeded, pc, uncaught, nEvents>>

\* reader.onload (lines 155-159) of the k-th pending read
ReaderOnload(k) ==
  /\ pc = "ready" /\ k \in 1..Len(pendingReads)
  /\ Assign([data EXCEPT !.background = DataURL(pendingReads[k])])
  /\ storage' = saveData(data')
  /\ dom' = render(data', editMode, dom)
  /\ pendingReads' = SubSeq(pendingReads, 1, k - 1)
                       \o SubSeq(pendingReads, k + 1, Len(pendingReads))
  /\ last' = Event("onload", 0, 0, DataURL(pendingReads[k]), pendingReads[k])
  /\ calls' = SaveThenRender
  /\ UNCHANGED <<editMode, quotaExceeded, pc, uncaught, nEvents>>

\* The assignment reaching every task of the list.
SetAllCompleted(tasks, r, checked) ==
  [k \in 1..Len(tasks) |-> [tasks[k] EXCEPT !.completed = checked]]

\* task.completed = checkbox.checked (line 253), task being the object at
\* row r of tasks.
SetCompleted(tasks, r, checked) ==
  IF r <= Len(tasks) THEN [tasks EXCEPT ![r].completed = checked] ELSE tasks

\* checkbox.onchange (lines 252-256) of row r of the section at position c.
\* The click has flipped checkbox.checked; `task` is the object that was at
\* the row's position when the row was built.
CheckboxChange(c, r) ==
  /\ CanHandle /\ c \in 1..Len(App.categories) /\ r \in 1..Len(App.categories[c].items)
  /\ LET cat     == App.categories[c]
         checked == ~cat.items[r].checked
     IN  /\ Assign([data EXCEPT !.sections[cat.idx + 1].tasks =
                                  SetCompleted(@, r, checked)])
         /\ last' = Event("check", c, r, <<>>, 0)
         /\ calls' = SaveThenRender
  /\ storage' = saveData(data')
  /\ dom' = render(data', editMode, dom)
  /\ nEvents' = nEvents + 1
  /\ UNCHANGED <<editMode, quotaExceeded, pendingReads, pc, uncaught>>

\* tasks.splice(taskIndex + 1, 1): the row below the one clicked goes.
spliceNext(tasks, taskIndex) ==
  SubSeq(tasks, 1, taskIndex + 1) \o SubSeq(tasks, taskIndex + 3, Len(tasks))

\* tasks.splice(taskIndex, 1) (line 269)
splice(tasks, taskIndex) ==
  IF taskIndex < Len(tasks)
    THEN SubSeq(tasks, 1, taskIndex) \o SubSeq(tasks, taskIndex + 2, Len(tasks))
    ELSE tasks

\* The handler without line 271: the rows keep the indices they were built
\* with.
DeleteWithoutRender(c, r) ==
  /\ CanHandle /\ c \in 1..Len(App.categories) /\ r \in 1..Len(App.categories[c].items)
  /\ App.categories[c].items[r].delBtn # <<>>
  /\ Assign([data EXCEPT !.sections[App.categories[c].idx + 1].tasks =
                           splice(@, App.categories[c].items[r].delBtn[1])])
  /\ storage' = saveData(data')
  /\ last' = Event("delete", c, r, <<>>, 0)
  /\ calls' = SaveOnly
  /\ nEvents' = nEvents + 1
  /\ UNCHANGED <<editMode, quotaExceeded, dom, pendingReads, pc, uncaught>>

\* delBtn.onclick (lines 268-272) of row r of the section at position c
DeleteClick(c, r) ==
  /\ CanHandle /\ c \in 1..Len(App.categories) /\ r \in 1..Len(App.categories[c].items)
  /\ App.categories[c].items[r].delBtn # <<>>
  /\ LET cat == App.categories[c]
     IN  Assign([data EXCEPT !.sections[cat.idx + 1].tasks =
                                splice(@, cat.items[r].delBtn[1])])
  /\ storage' = saveData(data')
  /\ dom' = render(data', editMode, dom)
  /\ last' = Event("delete", c, r, <<>>, 0)
  /\ calls' = SaveThenRender
  /\ nEvents' = nEvents + 1
  /\ UNCHANGED <<editMode, quotaExceeded, pendingReads, pc, uncaught>>

\* tasks.unshift: the new task goes first.
unshift(tasks, text) == <<[text |-> text, completed |-> FALSE]>> \o tasks

\* tasks.push({ text, completed: false }) (line 291)
push(tasks, text) == Append(tasks, [text |-> text, completed |-> FALSE])

\* addBtn.onclick (lines 288-296): the add field of the section at position c
\* holds v when Add is clicked.
AddClick(c, v) ==
  /\ CanHandle /\ c \in 1..Len(App.categories) /\ App.categories[c].addInput # <<>>
  /\ LET cat  == App.categories[c]
         text == trim(v)
     IN  IF text # <<>>
           THEN /\ Assign([data EXCEPT !.sections[cat.idx + 1].tasks = push(@, text)])
                /\ storage' = saveData(data')
                /\ dom' = render(data', editMode, dom)
           ELSE /\ dom' = [dom EXCEPT !.app[1].categories[c].addInput = <<v>>]
                /\ UNCHANGED <<data, defaultData, aliased, storage>>
  /\ last' = Event("add", c, 0, v, 0)
  /\ calls' = (IF trim(v) # <<>> THEN SaveThenRender ELSE NoCall)
  /\ nEvents' = nEvents + 1
  /\ UNCHANGED <<editMode, quotaExceeded, pendingReads, pc, uncaught>>

\* The storage fills up, which is an event of the budget, or room is made in
\* it.
QuotaChange ==
  /\ quotaExceeded \/ nEvents < MaxEvents
  /\ quotaExceeded' = ~quotaExceeded
  /\ last' = Event("quota", 0, 0, <<>>, 0)
  /\ calls' = NoCall
  /\ nEvents' = IF quotaExceeded THEN nEvents ELSE nEvents + 1
  /\ UNCHANGED <<data, defaultData, aliased, editMode, storage, dom,
                 pendingReads, pc, uncaught>>

Next ==
  \/ Reload
  \/ DOMContentLoaded
  \/ ToggleClick
  \/ \E v \in RenameInputs : NamesChange(v)
  \/ \E v \in RenameInputs : TaglineChange(v)
  \/ \E c \in 1..2, v \in RenameInputs : TitleChange(c, v)
  \/ \E v \in OverlayInputs : RangeInput(v)
  \/ \E f \in Files \cup {NoFile} : FileChange(f)
  \/ \E k \in 1..MaxEvents : ReaderOnload(k)
  \/ \E c \in 1..2, r \in 1..(4 + MaxEvents) : CheckboxChange(c, r)
  \/ \E c \in 1..2, r \in 1..(4 + MaxEvents) : DeleteClick(c, r)
  \/ \E c \in 1..2, v \in AddInputs : AddClick(c, v)

\* The program with a storage that takes every write.
Spec == Init /\ [][Next]_vars

\* The program with a storage whose writes can fail.
NextQuota == Next \/ QuotaChange

SpecQuota == InitQuota /\ [][NextQuota]_vars

\* The program opened on a key that may hold a document it did not write.
SpecForeign == InitForeign /\ [][Next]_vars

\* The program with a slider dragged to any position of its domain.
NextSlider == Next \/ \E v \in RangeDomain : RangeInput(v)

SpecSlider == Init /\ [][NextSlider]_vars

(***************************************************************************)
(* saveData followed by getData, on application states of every shape      *)
(***************************************************************************)
\* Tasks of a stored list.
MaxTasks == 1

\* The sequences over S of length n at most
RECURSIVE SeqsUpTo(_, _)
SeqsUpTo(S, n) ==
  IF n = 0
    THEN {<<>>}
    ELSE UNION {{q} \cup {Append(q, x) : x \in S} : q \in SeqsUpTo(S, n - 1)}

\* Task texts are what addBtn.onclick stores: trimmed and not empty.
StoreTasks == [text : {trim(v) : v \in AddInputs} \ {<<>>}, completed : BOOLEAN]

StoreCategories ==
  [title : {DefaultLiteral.sections[2].title, <<"\\", "J", "\"">>},
   tasks : SeqsUpTo(StoreTasks, MaxTasks)]

\* Application states: any names, tagline and background, an overlay of the
\* slider's domain, at most as many categories as the page shows.
StoreStates ==
  [names      : RenameInputs,
   tagline    : {<<>>, DefaultLiteral.tagline},
   background : {DefaultLiteral.background, DataURL(1)},
   overlay    : RangeDomain,
   sections   : SeqsUpTo(StoreCategories, Len(DefaultLiteral.sections))]

\* Some application state is in memory and nothing is stored.
InitStore ==
  /\ data \in StoreStates
  /\ defaultData = DefaultLiteral
  /\ aliased = FALSE
  /\ editMode = FALSE
  /\ storage = Absent
  /\ quotaExceeded = FALSE
  /\ dom = EmptyPage
  /\ pendingReads = <<>>
  /\ pc = "unsaved"
  /\ uncaught = FALSE
  /\ last = Event("state", 0, 0, <<>>, 0)
  /\ calls = NoCall
  /\ nEvents = 0

\* saveData() (lines 55-61) on the state in memory
StoreSave ==
  /\ pc = "unsaved"
  /\ storage' = saveData(data)
  /\ pc' = "saved"
  /\ last' = Event("save", 0, 0, <<>>, 0)
  /\ calls' = SaveOnly
  /\ UNCHANGED <<data, defaultData, aliased, editMode, quotaExceeded, dom,
                 pendingReads, uncaught, nEvents>>

\* The script runs again on what was saved (line 64).
StoreLoad == pc = "saved" /\ Reload

NextStore == StoreSave \/ StoreLoad

SpecStore == InitStore /\ [][NextStore]_vars

(***************************************************************************)
(* Properties                                                              *)
(***************************************************************************)
\* The entry holds a document that JSON.parse turns into d.
Persisted(entry, d) ==
  /\ entry.present /\ entry.value # <<>>
  /\ JSONparse(entry.value).ok
  /\ JSONparse(entry.value).val = d

\* C1. Round trip: loading with getData what saveData wrote for an
\* application state S returns a state equal to S, field by field.
RoundTrip ==
  [][(pc = "saved" /\ pc' = "loading") => (data' = data /\ ~uncaught')]_vars

\* A state with escaped characters in its names, a two-digit fraction as
\* overlay, two categories and a task has been saved and loaded.
RoundTripWitness ==
  /\ pc = "loading" /\ storage.present
  /\ data.names = <<"\\", "J", "\"">>
  /\ data.overlay = 5
  /\ Len(data.sections) = 2 /\ data.sections[1].tasks # <<>>
  /\ data.sections[2].tasks = <<>>

\* The built-in default as the claim describes it.
DefaultShape(d) ==
  /\ Len(d.sections) = 2
  /\ d.sections[1].title = <<"T", "r", "a", "v", "e", "l", " ", "A", "d", "v", "e", "n", "t", "u", "r", "e", "s">>
  /\ d.sections[2].title = <<"P", "e", "r", "s", "o", "n", "a", "l", " ", "G", "o", "a", "l", "s">>
  /\ \A c \in 1..2 :
       /\ Len(d.sections[c].tasks) = 4
       /\ \A r \in 1..4 : d.sections[c].tasks[r].completed = FALSE
  /\ d.overlay = 60

\* C2. Default fallback: when the storage key is absent or empty, getData
\* returns a state equal to the built-in default (two categories, 'Travel
\* Adventures' and 'Personal Goals', four tasks each, none completed, overlay
\* 0.6), and no later mutation of the loaded state changes the built-in
\* default.
DefaultFallback ==
  /\ defaultData = DefaultLiteral
  /\ (last.op = "load" /\ (~storage.present \/ storage.value = <<>>))
       => (~uncaught /\ data = defaultData /\ DefaultShape(data))

\* The state loaded on the first visit, which is the default whatever the key
\* held, has had its names emptied and a task completed: the built-in
\* default still has its names and no completed task.
DefaultFallbackWitness ==
  /\ nEvents = 2 /\ last.op = "check"
  /\ data.names = <<>> /\ defaultData.names # <<>>
  /\ \E c \in 1..2, r \in 1..4 :
       data.sections[c].tasks[r].completed /\ ~defaultData.sections[c].tasks[r].completed
  /\ DefaultShape(defaultData)

\* C3. Corrupt-storage fallback: when the key holds a string that is not
\* valid JSON, getData returns the default state and no exception leaves it.
CorruptFallback ==
  (last.op = "load" /\ storage.present /\ storage.value \in CorruptBlobs)
    => (~uncaught /\ data = DefaultLiteral)

\* A document cut short was in the key when the script ran.
CorruptFallbackWitness ==
  /\ last.op = "load" /\ storage.present /\ storage.value \in CorruptBlobs
  /\ Len(storage.value) > Len(KeyNames)
  /\ ~uncaught /\ data = DefaultLiteral

\* C4. Add task: Add on category c with an input whose trimmed text t is not
\* empty appends exactly {text: t, completed: false} at the end of c's list,
\* changes nothing else of the state, and the stored document reflects the
\* new state; Add with an empty or whitespace-only input leaves the state and
\* the stored entry as they were.
AddTask ==
  [][last'.op = "add" =>
       IF trim(last'.text) # <<>>
         THEN /\ data' = [data EXCEPT !.sections[last'.cat].tasks =
                            Append(@, [text |-> trim(last'.text), completed |-> FALSE])]
              /\ Persisted(storage', data')
         ELSE data' = data /\ storage' = storage]_vars

\* In edit mode a task with surrounding whitespace typed around it was added
\* at the end of a list of four.
AddTaskWitness ==
  /\ last.op = "add" /\ editMode /\ last.text # trim(last.text)
  /\ Len(data.sections[last.cat].tasks) = 5
  /\ data.sections[last.cat].tasks[5] = [text |-> trim(last.text), completed |-> FALSE]
  /\ Persisted(storage, data)

\* new is old without its element at position i.
RemovedAt(old, new, i) ==
  /\ i \in 1..Len(old)
  /\ Len(new) = Len(old) - 1
  /\ \A k \in 1..(i - 1) : new[k] = old[k]
  /\ \A k \in (i + 1)..Len(old) : new[k - 1] = old[k]

\* C5. Delete task: deleting the task at position i of category c removes
\* exactly that task, the tasks before it keep their positions, the tasks
\* after it move down by one with text and completed unchanged, nothing else
\* of the state changes, and the new list is stored.
DeleteTask ==
  [][last'.op = "delete" =>
       /\ RemovedAt(data.sections[last'.cat].tasks, data'.sections[last'.cat].tasks,
                    last'.row)
       /\ data' = [data EXCEPT !.sections[last'.cat].tasks = data'.sections[last'.cat].tasks]
       /\ Persisted(storage', data')]_vars

\* A task in the middle of a list was deleted after a task of the list had
\* been completed.
DeleteTaskWitness ==
  /\ last.op = "delete" /\ last.row = 2 /\ nEvents = 2
  /\ Len(data.sections[last.cat].tasks) = 3
  /\ data.sections[last.cat].tasks[2].completed
  /\ Persisted(storage, data)

\* C6. Completion toggle: toggling the checkbox of one task flips that task's
\* completed field, stores the state, and changes no other task and no other
\* field, in view mode and in edit mode, whatever was added, deleted or
\* rendered before.
CompletionToggle ==
  [][last'.op = "check" =>
       /\ last'.row \in 1..Len(data.sections[last'.cat].tasks)
       /\ data' = [data EXCEPT !.sections[last'.cat].tasks[last'.row].completed = ~@]
       /\ Persisted(storage', data')]_vars

\* In view mode, a task added before was completed.
CompletionToggleWitness ==
  /\ last.op = "check" /\ ~editMode /\ last.row = 5
  /\ Len(data.sections[last.cat].tasks) = 5
  /\ data.sections[last.cat].tasks[5].completed
  /\ \A r \in 1..4 : ~data.sections[last.cat].tasks[r].completed

\* C7. Overlay set: an input event of the slider with a value v of its domain
\* sets state.overlay to v, stores v, and gives the overlay element in the
\* page the opacity v; nothing else of the page is rebuilt.
OverlaySet ==
  [][last'.op = "overlay" =>
       /\ last'.num \in RangeDomain
       /\ data' = [data EXCEPT !.overlay = last'.num]
       /\ Persisted(storage', data')
       /\ dom' = [dom EXCEPT !.overlays = <<Rgba(last'.num)>>,
                             !.app[1].rangeInput = <<FormatNumber(last'.num)>>]]_vars

\* The slider was dragged to 0.35 while an add field held typed text: the
\* overlay has the new opacity and the typed text is still there.
OverlaySetWitness ==
  /\ last.op = "overlay" /\ data.overlay = 35
  /\ dom.overlays = <<Rgba(35)>>
  /\ \E c \in 1..2 : App.categories[c].addInput = << <<" ", "\t">> >>
  /\ Persisted(storage, data)

InRange(overlay) == overlay >= 0 /\ overlay <= 90

\* The key holds no document, or a document whose overlay is within [0, 0.9].
StoredOverlayInRange ==
  \/ ~storage.present
  \/ storage.value = <<>>
  \/ ~JSONparse(storage.value).ok
  \/ InRange(JSONparse(storage.value).val.overlay)

\* C8 as stated. Overlay invariant: in every reachable state, after a load
\* from storage and after any sequence of UI operations, state.overlay is
\* within [0, 0.9].
OverlayWithinRange == InRange(data.overlay)

\* C8 as amended. state.overlay is within [0, 0.9] after every load that
\* finds no stored document or one whose overlay is within [0, 0.9], and no
\* UI operation moves it out of that range.
OverlayStaysInRange ==
  /\ []((last.op = "load" /\ StoredOverlayInRange) => InRange(data.overlay))
  /\ [][(last'.op # "load" /\ InRange(data.overlay)) => InRange(data'.overlay)]_vars

\* A document with overlay 1.5 was loaded, and the slider then brought the
\* overlay to its maximum.
OverlayStaysInRangeWitness ==
  /\ last.op = "overlay" /\ data.overlay = 90
  /\ data.sections[1].tasks[2].completed
  /\ StoredOverlayInRange

\* The last step ended with a call of render.
Rendered ==
  \/ last.op \in {"DOMContentLoaded", "toggleMode", "check", "delete", "onload"}
  \/ last.op = "add" /\ trim(last.text) # <<>>

\* C9. Render never accumulates overlays and is idempotent: the page never
\* holds more than one overlay element, and after a render, rendering again
\* with the same state and mode yields the same page.
RenderIdempotent ==
  /\ Len(dom.overlays) <= 1
  /\ Rendered => (Len(dom.overlays) = 1 /\ render(data, editMode, dom) = dom)

\* The page was rendered at least four times: on load, on entering edit mode,
\* and after two list operations.
RenderIdempotentWitness ==
  /\ Rendered /\ editMode /\ nEvents = 2 /\ last.op = "delete"
  /\ Len(data.sections[1].tasks) + Len(data.sections[2].tasks) = 6
  /\ dom.overlays = <<Rgba(data.overlay)>>

\* A handler that changes the application state ran.
Mutation(event) ==
  \/ event.op \in {"names", "tagline", "title", "overlay", "onload", "delete", "check"}
  \/ event.op = "add" /\ trim(event.text) # <<>>

\* C10. Every mutation is followed by a full write: after a handler that
\* changes the state (rename of names, tagline or category, overlay, image
\* read, add, delete, toggle) with a write that succeeds, the stored document
\* deserializes to the state in memory, so a reload restores that state.
MutationPersisted ==
  [][(Mutation(last') /\ ~quotaExceeded) =>
       /\ Persisted(storage', data')
       /\ getData(storage', DefaultLiteral) = Returned(data')]_vars

\* Two changes were made, the second with room in the storage: the stored
\* document holds both, also when the write of the first one failed.
MutationPersistedWitness ==
  /\ Mutation(last) /\ ~quotaExceeded /\ nEvents = 2
  /\ data.names = <<>> /\ data.sections[2].title = <<"\\", "J", "\"">>
  /\ Persisted(storage, data)

\* The state a mutating event is meant to leave, d being the state before it.
Effect(d, event) ==
  CASE event.op = "names"   -> [d EXCEPT !.names = event.text]
    [] event.op = "tagline" -> [d EXCEPT !.tagline = event.text]
    [] event.op = "title"   -> [d EXCEPT !.sections[event.cat].title = event.text]
    [] event.op = "overlay" -> [d EXCEPT !.overlay = event.num]
    [] event.op = "onload"  -> [d EXCEPT !.background = event.text]
    [] event.op = "check"   ->
         [d EXCEPT !.sections[event.cat].tasks[event.row].completed = ~@]
    [] event.op = "delete"  ->
         [d EXCEPT !.sections[event.cat].tasks =
            SubSeq(@, 1, event.row - 1) \o SubSeq(@, event.row + 1, Len(@))]
    [] event.op = "add"     ->
         [d EXCEPT !.sections[event.cat].tasks =
            Append(@, [text |-> trim(event.text), completed |-> FALSE])]
    [] OTHER -> d

\* The handler of the event ends with a call of render.
Renders(event) ==
  \/ event.op \in {"check", "delete", "onload"}
  \/ event.op = "add" /\ trim(event.text) # <<>>

\* C11. Persistence-write failure is swallowed: when the write fails, the
\* handler still applies its mutation to the state in memory and completes,
\* re-render included, without an exception; the stored entry keeps its
\* previous value; later operations act on the state in memory; and a reload
\* returns what the entry holds, the last state written with success, or the
\* default when nothing was ever written.
WriteFailureSwallowed ==
  /\ [][Mutation(last') =>
          /\ data' = Effect(data, last')
          /\ ~uncaught' /\ pc' = "ready"
          /\ Renders(last') => dom' = render(data', editMode, dom)
          /\ quotaExceeded => storage' = storage]_vars
  /\ [][last'.op = "load" =>
          /\ ~uncaught'
          /\ IF storage.present
               THEN Persisted(storage, data')
               ELSE data' = DefaultLiteral]_vars

\* After a write that failed, the page shows a task that the entry, written
\* on an earlier visit, does not hold.
WriteFailureSwallowedWitness ==
  /\ last.op = "add" /\ quotaExceeded /\ ~uncaught
  /\ Persisted(storage, ReturningState)
  /\ Len(data.sections[last.cat].tasks) = 5
  /\ Len(App.categories[last.cat].items) = 5

\* C12. Mode toggle: activating the Edit/Done button flips editMode and
\* re-renders, and leaves the state and the stored entry unchanged; the
\* button reads 'Done' exactly when editMode is true; editMode is false when
\* the script has run, on the first visit and after every reload.
ModeToggle ==
  /\ [][last'.op = "toggleMode" =>
          /\ editMode' = ~editMode
          /\ data' = data /\ storage' = storage
          /\ calls' = <<"render">>
          /\ dom' = render(data, editMode', dom)]_vars
  /\ [](pc = "ready" => (App.toggleBtn = "Done" <=> editMode))
  /\ [](last.op = "load" => ~editMode)

\* Edit mode was entered, two edits were made and edit mode was left: the
\* button reads 'Edit' again.
ModeToggleWitness ==
  /\ last.op = "toggleMode" /\ ~editMode /\ nEvents = 2
  /\ App.toggleBtn = "Edit"
  /\ data.names = <<>> /\ data.tagline = <<>>

\* C13 as stated. Control-flow ordering: every UI event that mutates the
\* state (rename of names, tagline or category title, image-read completion,
\* add, delete, toggle; the slider excepted) is followed, before any other
\* handler runs, first by a save and then by a render call.
SaveThenRenderAfterMutation ==
  [][(Mutation(last') /\ last'.op # "overlay") =>
       calls' = <<"saveData", "render">>]_vars

\* The page after a rename: only the value of the field typed into differs.
Retyped(page, event) ==
  CASE event.op = "names"   -> [page EXCEPT !.app[1].names.value = event.text]
    [] event.op = "tagline" -> [page EXCEPT !.app[1].tagline.value = event.text]
    [] event.op = "title"   ->
         [page EXCEPT !.app[1].categories[event.cat].title.value = event.text]
    [] OTHER -> page

\* C13 as amended. Every UI event that mutates the state is followed, before
\* any other handler runs, by a save; image-read completion, add, delete and
\* toggle then call render, while a rename of names, tagline or category
\* title, like the slider, calls no render and leaves the page as it is.
SaveAfterMutation ==
  [][Mutation(last') =>
       IF Renders(last')
         THEN calls' = <<"saveData", "render">> /\ dom' = render(data', editMode, dom)
         ELSE /\ calls' = <<"saveData">>
              /\ last'.op # "overlay" => dom' = Retyped(dom, last')]_vars

\* The names were emptied while an add field held typed text: the state was
\* saved and the typed text is still in the page.
SaveAfterMutationWitness ==
  /\ last.op = "names" /\ calls = <<"saveData">>
  /\ data.names = <<>> /\ Persisted(storage, data)
  /\ \E c \in 1..2 : App.categories[c].addInput = << <<" ", "\t">> >>

\* C14. Asynchronous image read, last write wins: selecting a file returns
\* at once without changing the state; when a read completes, the background
\* becomes that read's result, is stored, and the page is rendered again,
\* in view mode as in edit mode; no other handler changes the background, so
\* with several reads pending the background is in the end the result of
\* the read that completed last, whatever the order they were issued in.
ImageReadLastWins ==
  /\ [][last'.op = "file" =>
          /\ data' = data /\ storage' = storage /\ dom' = dom
          /\ pendingReads' = IF last'.num = NoFile
                               THEN pendingReads
                               ELSE Append(pendingReads, last'.num)]_vars
  /\ [][last'.op = "onload" =>
          /\ \E k \in 1..Len(pendingReads) : pendingReads[k] = last'.num
          /\ Len(pendingReads') = Len(pendingReads) - 1
          /\ data'.background = DataURL(last'.num)
          /\ JSONparse(storage'.value).val.background = DataURL(last'.num)
          /\ dom' = render(data', editMode, dom)
          /\ dom'.background = Url(DataURL(last'.num))]_vars
  /\ [][last'.op \notin {"onload", "load"} => data'.background = data.background]_vars

\* Two files were picked, the mode was toggled back to view mode, and the
\* read issued second completed first: the page shows its image while the
\* first read is still pending.
ImageReadLastWinsWitness ==
  /\ last.op = "onload" /\ last.num = 2 /\ pendingReads = <<1>>
  /\ ~editMode
  /\ data.background = DataURL(2) /\ dom.background = Url(DataURL(2))

\* C18. An image-read completion changes only the background: every change
\* made between the issue of the read and its completion is still in the
\* state in memory and in the stored document after the completion.
ImageReadKeepsOtherFields ==
  [][last'.op = "onload" =>
       /\ data' = [data EXCEPT !.background = data'.background]
       /\ Persisted(storage', [data EXCEPT !.background = last'.text])]_vars

\* A file was picked, then a task was completed, then the read completed:
\* the task is still completed, in memory and in the stored document.
ImageReadKeepsOtherFieldsWitness ==
  /\ last.op = "onload" /\ nEvents = 2 /\ pendingReads = <<>>
  /\ data.background = DataURL(1)
  /\ data.sections[2].tasks[3].completed
  /\ Persisted(storage, data)

\* The rows of the category at position c show the tasks of that category,
\* in order, and each delete control holds the position of its row's task.
RowsMatch(c) ==
  /\ App.categories[c].idx = c - 1
  /\ Len(App.categories[c].items) = Len(data.sections[c].tasks)
  /\ \A r \in 1..Len(data.sections[c].tasks) :
       /\ App.categories[c].items[r].text = data.sections[c].tasks[r].text
       /\ App.categories[c].items[r].checked = data.sections[c].tasks[r].completed
       /\ App.categories[c].items[r].delBtn \in {<<>>, <<r - 1>>}

\* C15. Delete index is never stale: in every reachable state, whatever the
\* order of the handlers and of the image-read completions, each row's
\* delete control holds a valid position of the category's current list,
\* that of the task the row shows; so a delete removes the task whose row
\* was clicked and no other.
DeleteIndexFresh ==
  /\ [](pc = "ready" => \A c \in 1..2 : RowsMatch(c))
  /\ [][last'.op = "delete" =>
          /\ last'.row \in 1..Len(data.sections[last'.cat].tasks)
          /\ App.categories[last'.cat].items[last'.row].text
               = data.sections[last'.cat].tasks[last'.row].text
          /\ data' = Effect(data, last')]_vars

\* A task was deleted after an image read had completed: the last row of the
\* list of three holds position 2.
DeleteIndexFreshWitness ==
  /\ last.op = "delete" /\ nEvents = 2 /\ editMode
  /\ data.background = DataURL(1)
  /\ \E c \in 1..2 :
       /\ Len(data.sections[c].tasks) = 3
       /\ App.categories[c].items[3].delBtn = <<2>>

\* C16. Text commit of names, tagline and category title stores the raw
\* value: a whitespace-only input is stored as it is, an empty input stores
\* the empty string, the value is written to storage, and only the committed
\* field changes.
RenameStoresRaw ==
  [][last'.op \in {"names", "tagline", "title"} =>
       /\ data' = Effect(data, last')
       /\ Persisted(storage', Effect(data, last'))]_vars

\* A category title was set to white space and the tagline was emptied.
RenameStoresRawWitness ==
  /\ last.op = "tagline" /\ last.text = <<>> /\ data.tagline = <<>>
  /\ \E c \in 1..2 : data.sections[c].title = <<" ", "\t">>
  /\ data.names = DefaultLiteral.names
  /\ Persisted(storage, data)

\* The page exposes every editing control.
EditControls ==
  /\ App.names.tag = "input" /\ App.tagline.tag = "input"
  /\ App.fileInput /\ App.rangeInput # <<>>
  /\ \A c \in 1..2 :
       /\ App.categories[c].title.tag = "input"
       /\ App.categories[c].addInput # <<>>
       /\ \A r \in 1..Len(App.categories[c].items) :
            App.categories[c].items[r].delBtn # <<>>

\* The page exposes no editing control.
NoEditControls ==
  /\ App.names.tag # "input" /\ App.tagline.tag # "input"
  /\ ~App.fileInput /\ App.rangeInput = <<>>
  /\ \A c \in 1..2 :
       /\ App.categories[c].title.tag # "input"
       /\ App.categories[c].addInput = <<>>
       /\ \A r \in 1..Len(App.categories[c].items) :
            App.categories[c].items[r].delBtn = <<>>

\* e differs from d in completed flags at most, and in the background.
SameTexts(d, e) ==
  /\ e.names = d.names /\ e.tagline = d.tagline /\ e.overlay = d.overlay
  /\ Len(e.sections) = Len(d.sections)
  /\ \A c \in 1..Len(d.sections) :
       /\ e.sections[c].title = d.sections[c].title
       /\ Len(e.sections[c].tasks) = Len(d.sections[c].tasks)
       /\ \A r \in 1..Len(d.sections[c].tasks) :
            e.sections[c].tasks[r].text = d.sections[c].tasks[r].text

\* C17. Edit-only controls: the rename fields, the file picker, the slider,
\* the add control and the delete controls are in the page exactly while
\* editMode is true; while it is false no user event changes names, tagline,
\* category titles, overlay, or the length or a text of a task list, and the
\* only change a user event makes to the state is the toggle of a completed
\* flag.
EditOnlyControls ==
  /\ [](pc = "ready" => IF editMode THEN EditControls ELSE NoEditControls)
  /\ [][(~editMode /\ last'.op \notin {"load", "onload"}) =>
          /\ SameTexts(data, data')
          /\ data' = data \/ (last'.op = "check" /\ data' = Effect(data, last'))]_vars

\* In view mode, reached again after an edit, a task was completed.
EditOnlyControlsWitness ==
  /\ last.op = "check" /\ ~editMode /\ nEvents = 2
  /\ NoEditControls
  /\ data.names = <<>>

\* The task texts are trimmed and not empty, the completed fields booleans.
TasksValid(tasks) ==
  \A r \in 1..Len(tasks) :
    /\ tasks[r].text # <<>>
    /\ tasks[r].text[1] \notin WhiteSpace
    /\ tasks[r].text[Len(tasks[r].text)] \notin WhiteSpace
    /\ tasks[r].completed \in BOOLEAN

\* C19. No operation adds, removes or reorders categories: from the default
\* state, after any sequence of operations, sections has exactly two
\* categories, every task has a text that is not empty and has no white space
\* at either end, and every completed field is a boolean; a step changes the
\* title or the tasks of a category, never both.
CategoriesFixed ==
  /\ [](/\ Len(data.sections) = 2
        /\ \A c \in 1..2 : TasksValid(data.sections[c].tasks))
  /\ [][\A c \in 1..2 :
          \/ data'.sections[c].title = data.sections[c].title
          \/ data'.sections[c].tasks = data.sections[c].tasks]_vars

\* A task typed with white space around it was added to the second category
\* after the first category had lost its title.
CategoriesFixedWitness ==
  /\ last.op = "add" /\ last.cat = 2 /\ nEvents = 2
  /\ data.sections[1].title = <<>>
  /\ Len(data.sections[1].tasks) = 4 /\ Len(data.sections[2].tasks) = 5
  /\ data.sections[2].tasks[5].text = <<"S", "\"", " ", "\\">>

====
